---- MODULE Spec2Model ----
(***************************************************************************)
(* Model of components/trip-calculator.tsx: the zod form schema, the       *)
(* react-hook-form state of TripCalculator, calculateTripValue, onSubmit   *)
(* and the result panel.                                                   *)
(*                                                                         *)
(* Numbers are exact decimal fixed-point values counted in thousandths     *)
(* (4.5 is 4500).  Every product the calculator forms on the inputs used   *)
(* here is a whole number of thousandths, so no rounding happens in the    *)
(* model; the IEEE-754 rounding of the JavaScript doubles is not modelled.  *)
(***************************************************************************)
EXTENDS Integers, Sequences, FiniteSets, TLC

VARIABLES values, errors, isSubmitted, results, submitted, edits

vars == <<values, errors, isSubmitted, results, submitted, edits>>

(***************************************************************************)
(* Fixed-point arithmetic.                                                 *)
(***************************************************************************)
Scale == 1000

Times(a, b) == (a * b) \div Scale

Floor(a) == (a \div Scale) * Scale

(***************************************************************************)
(* Raw JavaScript values held by the form: a number, a string, a boolean   *)
(* or undefined.                                                           *)
(***************************************************************************)
RawNum(n) == [t |-> "number", n |-> n, s |-> "", b |-> FALSE]

RawStr(s) == [t |-> "string", n |-> 0, s |-> s, b |-> FALSE]

RawBool(b) == [t |-> "boolean", n |-> 0, s |-> "", b |-> b]

Undefined == [t |-> "undefined", n |-> 0, s |-> "", b |-> FALSE]

(***************************************************************************)
(* The characters of the string literals that reach a numeric field.       *)
(***************************************************************************)
Chars(s) ==
  CASE s = "" -> <<>>
    [] s = "0" -> <<"0">>
    [] s = "3" -> <<"3">>
    [] s = "4" -> <<"4">>
    [] s = "10" -> <<"1", "0">>
    [] s = "12" -> <<"1", "2">>
    [] s = "20" -> <<"2", "0">>
    [] s = "30" -> <<"3", "0">>
    [] s = "60" -> <<"6", "0">>
    [] s = "3.5" -> <<"3", ".", "5">>
    [] s = " 7 " -> <<" ", "7", " ">>
    [] s = ".5" -> <<".", "5">>
    [] s = "-1" -> <<"-", "1">>
    [] s = "-5" -> <<"-", "5">>
    [] s = "-0.5" -> <<"-", "0", ".", "5">>
    [] s = "abc" -> <<"a", "b", "c">>
    [] s = "1.2.3" -> <<"1", ".", "2", ".", "3">>
    [] s = "-" -> <<"-">>
    [] s = "B757" -> <<"B", "7", "5", "7">>

Digits == {"0", "1", "2", "3", "4", "5", "6", "7", "8", "9"}

DigitVal(c) ==
  CASE c = "0" -> 0 [] c = "1" -> 1 [] c = "2" -> 2 [] c = "3" -> 3
    [] c = "4" -> 4 [] c = "5" -> 5 [] c = "6" -> 6 [] c = "7" -> 7
    [] c = "8" -> 8 [] c = "9" -> 9

RECURSIVE TrimLeft(_)
TrimLeft(cs) ==
  IF cs # <<>> /\ Head(cs) = " " THEN TrimLeft(Tail(cs)) ELSE cs

RECURSIVE TrimRight(_)
TrimRight(cs) ==
  IF cs # <<>> /\ cs[Len(cs)] = " "
    THEN TrimRight(SubSeq(cs, 1, Len(cs) - 1))
    ELSE cs

RECURSIVE DigitsValue(_)
DigitsValue(cs) ==
  IF cs = <<>> THEN 0
  ELSE DigitsValue(SubSeq(cs, 1, Len(cs) - 1)) * 10 + DigitVal(cs[Len(cs)])

\* The fraction digits as thousandths: the first three digits count.
FracValue(cs) ==
  (IF Len(cs) >= 1 THEN DigitVal(cs[1]) * 100 ELSE 0)
  + (IF Len(cs) >= 2 THEN DigitVal(cs[2]) * 10 ELSE 0)
  + (IF Len(cs) >= 3 THEN DigitVal(cs[3]) ELSE 0)

NaN == [nan |-> TRUE, n |-> 0]

Num(n) == [nan |-> FALSE, n |-> n]

AllDigits(cs) == \A i \in 1..Len(cs) : cs[i] \in Digits

\* Integer digits and fraction digits of a literal: at least one digit in all.
Mantissa(int, frac) ==
  IF AllDigits(int) /\ AllDigits(frac) /\ Len(int) + Len(frac) >= 1
    THEN Num(DigitsValue(int) * Scale + FracValue(frac))
    ELSE NaN

\* The position of the first "." at or after i, Len(body) + 1 if there is none.
RECURSIVE DotIndex(_, _)
DotIndex(body, i) ==
  IF i > Len(body) \/ body[i] = "." THEN i ELSE DotIndex(body, i + 1)

SplitAt(body, dot) ==
  Mantissa(SubSeq(body, 1, dot - 1), SubSeq(body, dot + 1, Len(body)))

UnsignedLiteral(body) == SplitAt(body, DotIndex(body, 1))

Negate(c) == IF c.nan THEN NaN ELSE Num(0 - c.n)

DecimalLiteral(cs) ==
  IF cs = <<>> THEN Num(0)
  ELSE IF Head(cs) = "-" THEN Negate(UnsignedLiteral(Tail(cs)))
  ELSE IF Head(cs) = "+" THEN UnsignedLiteral(Tail(cs))
  ELSE UnsignedLiteral(cs)

\* StringToNumber: white space is trimmed, the empty string is 0, a signed
\* decimal literal is its value and everything else is NaN.
StringToNumber(s) == DecimalLiteral(TrimRight(TrimLeft(Chars(s))))

Texts ==
  {"", "0", "3", "4", "10", "12", "20", "30", "60", "3.5", " 7 ", ".5", "-1",
   "-5", "-0.5", "abc", "1.2.3", "-", "B757"}

\* StringToNumber tabulated over Texts, so that each literal is parsed once.
StringToNumberTable == [s \in Texts |-> StringToNumber(s)]

\* Number(input), the coercion of z.coerce.number().
Number(raw) ==
  CASE raw.t = "number" -> Num(raw.n)
    [] raw.t = "string" -> StringToNumberTable[raw.s]
    [] raw.t = "boolean" -> Num(IF raw.b THEN Scale ELSE 0)
    [] raw.t = "undefined" -> NaN

(***************************************************************************)
(* The zod schema.  A field parser returns the parsed value and at most    *)
(* one issue; an optional value is <<>> when absent and <<v>> when present. *)
(***************************************************************************)
Fields ==
  <<"internationalTrip", "seniorityYears", "tafb", "hourlyRate", "credit",
    "position", "isMexicoCaribbean", "nightPayHours", "aircraft",
    "hoursInWidebody">>

FieldSet == {Fields[i] : i \in 1..Len(Fields)}

Valid(v) == [value |-> v, issue |-> <<>>]

Invalid(code, message) ==
  [value |-> 0, issue |-> <<[code |-> code, message |-> message]>>]

\* zod's default message for an invalid_type issue.
InvalidTypeMessage(expected, received) ==
  CASE expected = "number" /\ received = "nan" -> "Expected number, received nan"
    [] expected = "boolean" /\ received = "string" -> "Expected boolean, received string"
    [] expected = "boolean" /\ received = "number" -> "Expected boolean, received number"
    [] expected = "boolean" /\ received = "undefined" -> "Required"
    [] expected = "string" /\ received = "number" -> "Expected string, received number"
    [] expected = "string" /\ received = "boolean" -> "Expected string, received boolean"
    [] expected = "enum" /\ received = "undefined" -> "Required"
    [] expected = "enum" -> "Expected 'Speaker' | 'Galley' | 'Purser', received other type"

\* z.boolean()
zBoolean(raw) ==
  IF raw.t = "boolean" THEN Valid(raw.b)
  ELSE Invalid("invalid_type", InvalidTypeMessage("boolean", raw.t))

\* Variant: the check is "greater than 0", so 0 is rejected.
zNumberMin0Strict(c, message) ==
  IF c.nan THEN Invalid("invalid_type", InvalidTypeMessage("number", "nan"))
  ELSE IF c.n <= 0 THEN Invalid("too_small", message)
  ELSE Valid(c.n)

\* ZodNumber on the coerced value c, with the check min(0, message).
zNumberMin0(c, message) ==
  IF c.nan THEN Invalid("invalid_type", InvalidTypeMessage("number", "nan"))
  ELSE IF c.n < 0 THEN Invalid("too_small", message)
  ELSE Valid(c.n)

\* z.coerce.number().min(0, message)
zCoerceNumberMin0(raw, message) == zNumberMin0(Number(raw), message)

\* Variant: any string is taken for a member of the enum.
zEnumAnyString(raw, options) ==
  IF raw.t # "string" THEN Invalid("invalid_type", InvalidTypeMessage("enum", raw.t))
  ELSE Valid(raw.s)

\* z.enum(options)
zEnum(raw, options) ==
  IF raw.t # "string" THEN Invalid("invalid_type", InvalidTypeMessage("enum", raw.t))
  ELSE IF raw.s \notin options THEN Invalid("invalid_enum_value", "Invalid enum value")
  ELSE Valid(raw.s)

\* z.string()
zString(raw) ==
  IF raw.t = "string" THEN Valid(raw.s)
  ELSE Invalid("invalid_type", InvalidTypeMessage("string", raw.t))

\* Variant: the key is required, so undefined is an issue.
zOptionalRequired(raw, inner) ==
  IF raw.t = "undefined" THEN Invalid("invalid_type", "Required")
  ELSE IF inner.issue = <<>> THEN Valid(<<inner.value>>)
  ELSE inner

\* schema.optional(): undefined passes without reaching the inner schema.
zOptional(raw, inner) ==
  IF raw.t = "undefined" THEN Valid(<<>>)
  ELSE IF inner.issue = <<>> THEN Valid(<<inner.value>>)
  ELSE inner

\* z.object({...}): the result of each key's parser on its raw value.
formSchema(raw) ==
  [internationalTrip |-> zBoolean(raw.internationalTrip),
   seniorityYears |->
     zCoerceNumberMin0(raw.seniorityYears, "Seniority years must be a positive number"),
   tafb |-> zCoerceNumberMin0(raw.tafb, "TAFB must be a positive number"),
   hourlyRate |->
     zCoerceNumberMin0(raw.hourlyRate, "Hourly rate must be a positive number"),
   credit |-> zCoerceNumberMin0(raw.credit, "Credit hours must be a positive number"),
   position |-> zEnum(raw.position, {"Speaker", "Galley", "Purser"}),
   isMexicoCaribbean |-> zBoolean(raw.isMexicoCaribbean),
   nightPayHours |->
     zCoerceNumberMin0(raw.nightPayHours, "Night pay hours must be a positive number"),
   aircraft |-> zOptional(raw.aircraft, zString(raw.aircraft)),
   hoursInWidebody |->
     zOptional(raw.hoursInWidebody,
               zCoerceNumberMin0(raw.hoursInWidebody,
                                 "Hours in widebody must be a positive number"))]

\* Variant: parsing stops at the first key with an issue.
RECURSIVE ObjectIssuesAbortEarly(_, _)
ObjectIssuesAbortEarly(parsed, i) ==
  IF i > Len(Fields) THEN <<>>
  ELSE IF parsed[Fields[i]].issue = <<>> THEN ObjectIssuesAbortEarly(parsed, i + 1)
  ELSE <<[path |-> Fields[i], code |-> parsed[Fields[i]].issue[1].code,
          message |-> parsed[Fields[i]].issue[1].message]>>

\* ZodObject parsing: every key of the shape is parsed and the issues of all
\* of them are collected, in shape order.
RECURSIVE ObjectIssues(_, _)
ObjectIssues(parsed, i) ==
  IF i > Len(Fields) THEN <<>>
  ELSE (IF parsed[Fields[i]].issue = <<>> THEN <<>>
        ELSE <<[path |-> Fields[i], code |-> parsed[Fields[i]].issue[1].code,
                message |-> parsed[Fields[i]].issue[1].message]>>)
       \o ObjectIssues(parsed, i + 1)

\* The outcome of parsing, from the per-key results and the collected issues.
ParseReturn(parsed, issues) ==
  [success |-> issues = <<>>,
   data |-> [f \in FieldSet |-> parsed[f].value],
   issues |-> issues]

ObjectParse(parsed) == ParseReturn(parsed, ObjectIssues(parsed, 1))

safeParse(raw) == ObjectParse(formSchema(raw))

\* The index of the first issue reported for the field of issue k.
RECURSIVE FirstIssue(_, _, _)
FirstIssue(issues, k, i) ==
  IF issues[i].path = issues[k].path THEN i ELSE FirstIssue(issues, k, i + 1)

\* toNestErrors: one error per field, the first issue reported for it.
toNestErrors(issues) ==
  {issues[FirstIssue(issues, k, 1)] : k \in 1..Len(issues)}

ResolverResult(p) ==
  [success |-> p.success, values |-> p.data, errors |-> toNestErrors(p.issues)]

\* zodResolver(formSchema): the parsed data on success, the field errors
\* otherwise.
zodResolver(raw) == ResolverResult(safeParse(raw))

(***************************************************************************)
(* calculateTripValue, on a validated record.                              *)
(***************************************************************************)
\* Variant: Math.round in place of Math.floor.
seniorityFactorRounded(v) == Floor(v.seniorityYears \div 2 + Scale \div 2)

seniorityFactor(v) == Floor(v.seniorityYears \div 2)

\* Variant: the international rate ignores seniority.
perdiemFlatInternational(v) ==
  IF v.internationalTrip THEN 2700 ELSE 2200 + Times(seniorityFactor(v), 50)

perdiem(v) ==
  IF v.internationalTrip THEN 2700 + Times(seniorityFactor(v), 50)
  ELSE 2200 + Times(seniorityFactor(v), 50)

perdiemValue(v) == Times(v.tafb, perdiem(v))

internationalCredit(v) == IF v.internationalTrip THEN v.credit * 2 ELSE 0

\* values.aircraft || ""
aircraftOrEmpty(v) == IF v.aircraft = <<>> THEN "" ELSE v.aircraft[1]

\* values.hoursInWidebody || 0
hoursInWidebodyOrZero(v) ==
  IF v.hoursInWidebody = <<>> THEN 0 ELSE v.hoursInWidebody[1]

\* Variant: the regional and non-regional multipliers of the second
\* aircraft group are exchanged.
positionCreditSwapped(v) ==
  IF v.position = "Purser" THEN
    IF aircraftOrEmpty(v) \in {"A319", "A320", "B737"}
      THEN (IF v.isMexicoCaribbean THEN v.credit * 2 ELSE v.credit * 1)
    ELSE IF aircraftOrEmpty(v) \in {"B737-800", "B737-900", "B757"}
      THEN (IF v.isMexicoCaribbean THEN v.credit * 2 ELSE v.credit * 3)
    ELSE IF v.aircraft = <<"widebody">>
      THEN (IF v.isMexicoCaribbean THEN v.credit * 4 ELSE v.credit * 3)
    ELSE 0
  ELSE IF v.position = "Galley" THEN hoursInWidebodyOrZero(v)
  ELSE IF v.position = "Speaker" THEN Times(v.credit, 2500)
  ELSE 0

positionCredit(v) ==
  IF v.position = "Purser" THEN
    IF aircraftOrEmpty(v) \in {"A319", "A320", "B737"}
      THEN (IF v.isMexicoCaribbean THEN v.credit * 2 ELSE v.credit * 1)
    ELSE IF aircraftOrEmpty(v) \in {"B737-800", "B737-900", "B757"}
      THEN (IF v.isMexicoCaribbean THEN v.credit * 3 ELSE v.credit * 2)
    ELSE IF v.aircraft = <<"widebody">>
      THEN (IF v.isMexicoCaribbean THEN v.credit * 4 ELSE v.credit * 3)
    ELSE 0
  ELSE IF v.position = "Galley" THEN hoursInWidebodyOrZero(v)
  ELSE IF v.position = "Speaker" THEN Times(v.credit, 2500)
  ELSE 0

nightPayCredit(v) == v.nightPayHours \div 2

baseValue(v) == Times(v.hourlyRate, v.credit)

\* Variant: the night pay credit is left out of the sum.
totalTripValueNoNightPay(v) ==
  baseValue(v) + perdiemValue(v) + positionCredit(v) + internationalCredit(v)

totalTripValue(v) ==
  baseValue(v) + perdiemValue(v) + positionCredit(v) + internationalCredit(v)
  + nightPayCredit(v)

calculateTripValue(v) ==
  [perdiem |-> perdiem(v),
   perdiemValue |-> perdiemValue(v),
   positionCredit |-> positionCredit(v),
   internationalCredit |-> internationalCredit(v),
   nightPayCredit |-> nightPayCredit(v),
   totalTripValue |-> totalTripValue(v)]

(***************************************************************************)
(* The component's state: the form values, formState.errors,               *)
(* formState.isSubmitted, the results state, and the record onSubmit was   *)
(* last called with.                                                       *)
(***************************************************************************)
MaxEdits == 4

defaultValues ==
  [internationalTrip |-> RawBool(FALSE),
   seniorityYears |-> RawNum(0),
   tafb |-> RawNum(0),
   hourlyRate |-> RawNum(0),
   credit |-> RawNum(0),
   position |-> RawStr("Speaker"),
   isMexicoCaribbean |-> RawBool(FALSE),
   nightPayHours |-> RawNum(0),
   aircraft |-> Undefined,
   hoursInWidebody |-> RawNum(0)]

aircraftOptions ==
  {"A319", "A320", "B737", "B737-800", "B737-900", "B757", "widebody"}

positionOptions == {"Speaker", "Galley", "Purser"}

Init ==
  /\ values = defaultValues
  /\ errors = {}
  /\ isSubmitted = FALSE
  /\ results = <<>>
  /\ submitted = <<>>
  /\ edits = 0

watchPosition == values.position.s

watchInternationalTrip == values.internationalTrip.b

\* What a user can leave in an <input type="number">: the empty string or a
\* valid floating-point literal.
InputTexts(name) ==
  CASE name = "seniorityYears" -> {"3.5", "-1"}
    [] name = "tafb" -> {"20", "-5"}
    [] name = "hourlyRate" -> {"60"}
    [] name = "credit" -> {"30", ""}
    [] name = "nightPayHours" -> {"4"}
    [] name = "hoursInWidebody" -> {"12", "-1"}

\* field.onChange of a registered field: the value is stored, and once the
\* form has been submitted the field is validated again (reValidateMode
\* "onChange") and its own error is set or cleared.
fieldError(name, fieldErrors) == {e \in fieldErrors : e.path = name}

fieldOnChange(name, raw) ==
  /\ edits < MaxEdits
  /\ edits' = edits + 1
  /\ values' = [values EXCEPT ![name] = raw]
  /\ errors' = IF isSubmitted
                 THEN (errors \ fieldError(name, errors))
                      \cup fieldError(name, zodResolver([values EXCEPT ![name] = raw]).errors)
                 ELSE errors
  /\ UNCHANGED <<isSubmitted, results, submitted>>

\* form.setValue(name, value) without options: the value is stored and
\* nothing is validated.
setValue(name, raw) ==
  /\ edits < MaxEdits
  /\ edits' = edits + 1
  /\ values' = [values EXCEPT ![name] = raw]
  /\ UNCHANGED <<errors, isSubmitted, results, submitted>>

ToggleInternationalTrip ==
  fieldOnChange("internationalTrip", RawBool(~values.internationalTrip.b))

ChangeSeniorityYears ==
  \E text \in InputTexts("seniorityYears") :
    fieldOnChange("seniorityYears", RawStr(text))

ChangeTafb ==
  \E text \in InputTexts("tafb") : fieldOnChange("tafb", RawStr(text))

ChangeHourlyRate ==
  \E text \in InputTexts("hourlyRate") : fieldOnChange("hourlyRate", RawStr(text))

ChangeCredit ==
  \E text \in InputTexts("credit") : fieldOnChange("credit", RawStr(text))

SelectPosition ==
  \E p \in positionOptions : fieldOnChange("position", RawStr(p))

SelectAircraft ==
  /\ watchPosition = "Purser"
  /\ \E a \in aircraftOptions : setValue("aircraft", RawStr(a))

ToggleIsMexicoCaribbean ==
  /\ watchPosition = "Purser"
  /\ fieldOnChange("isMexicoCaribbean", RawBool(~values.isMexicoCaribbean.b))

ChangeHoursInWidebody ==
  /\ watchPosition = "Galley"
  /\ \E text \in InputTexts("hoursInWidebody") :
       fieldOnChange("hoursInWidebody", RawStr(text))

ChangeNightPayHours ==
  \E text \in InputTexts("nightPayHours") :
    fieldOnChange("nightPayHours", RawStr(text))

\* onSubmit: the new results state.
onSubmit(v) == <<calculateTripValue(v)>>

\* Variant: a result, once set, is kept.
handleSubmitKeepFirst(r, before) ==
  IF r.success /\ before = <<>> THEN onSubmit(r.values) ELSE before

\* form.handleSubmit(onSubmit): the results state after a submission whose
\* resolver result is r, given the results state before it.
handleSubmit(r, before) == IF r.success THEN onSubmit(r.values) ELSE before

\* A submission whose resolver result is r.
SubmitResult(r) ==
  /\ isSubmitted' = TRUE
  /\ errors' = r.errors
  /\ results' = handleSubmit(r, results)
  /\ submitted' = IF r.success THEN <<r.values>> ELSE submitted
  /\ UNCHANGED <<values, edits>>

Submit == SubmitResult(zodResolver(values))

Next ==
  \/ ToggleInternationalTrip
  \/ ChangeSeniorityYears
  \/ ChangeTafb
  \/ ChangeHourlyRate
  \/ ChangeCredit
  \/ SelectPosition
  \/ SelectAircraft
  \/ ToggleIsMexicoCaribbean
  \/ ChangeHoursInWidebody
  \/ ChangeNightPayHours
  \/ Submit

Spec == Init /\ [][Next]_vars

\* The result panel.
resultsShown == results # <<>>

internationalCreditRowShown == resultsShown /\ watchInternationalTrip

(***************************************************************************)
(* The validator and the calculator as functions: one submission of an     *)
(* arbitrary raw record.                                                   *)
(***************************************************************************)
BoolRaw == {RawBool(TRUE), RawBool(FALSE), RawStr("true")}

SeniorityRaw ==
  {RawNum(0), RawStr("3.5"), RawStr("10"), RawStr("-1"), RawStr("abc")}

TafbRaw == {RawStr("20"), RawStr("-5"), Undefined}

HourlyRateRaw == {RawStr("60"), RawNum(0 - 1000), RawStr("1.2.3")}

CreditRaw == {RawStr("30"), RawStr(""), RawStr("-0.5")}

NightPayHoursRaw == {RawStr("4"), RawStr("-5"), RawStr("abc")}

PositionRaw == {RawStr(p) : p \in positionOptions} \cup {RawStr("Pilot")}

AircraftRaw(position) ==
  IF position = RawStr("Purser")
    THEN {RawStr(a) : a \in aircraftOptions} \cup {Undefined, RawStr("B747")}
    ELSE {Undefined, RawStr("A319")}

HoursInWidebodyRaw(position) ==
  IF position = RawStr("Galley")
    THEN {Undefined, RawStr("12"), RawStr("-1"), RawStr("abc")}
    ELSE {Undefined, RawStr("12")}

InitFn ==
  /\ values \in
       {r \in [internationalTrip : BoolRaw,
               seniorityYears : SeniorityRaw,
               tafb : TafbRaw,
               hourlyRate : HourlyRateRaw,
               credit : CreditRaw,
               position : PositionRaw,
               isMexicoCaribbean : BoolRaw,
               nightPayHours : NightPayHoursRaw,
               aircraft : AircraftRaw(RawStr("Purser")),
               hoursInWidebody : HoursInWidebodyRaw(RawStr("Galley"))] :
          /\ r.aircraft \in AircraftRaw(r.position)
          /\ r.hoursInWidebody \in HoursInWidebodyRaw(r.position)}
  /\ errors = {}
  /\ isSubmitted = FALSE
  /\ results = <<>>
  /\ submitted = <<>>
  /\ edits = 0

NextFn == Submit

SpecFn == InitFn /\ [][NextFn]_vars

(***************************************************************************)
(* Properties.  In SpecFn the state after Submit holds the outcome of one  *)
(* validation call on values: errors, and on success the validated record  *)
(* in submitted and its result in results.                                 *)
(***************************************************************************)
NumericFields ==
  {"seniorityYears", "tafb", "hourlyRate", "credit", "nightPayHours",
   "hoursInWidebody"}

PositiveNumberMessage(f) ==
  CASE f = "seniorityYears" -> "Seniority years must be a positive number"
    [] f = "tafb" -> "TAFB must be a positive number"
    [] f = "hourlyRate" -> "Hourly rate must be a positive number"
    [] f = "credit" -> "Credit hours must be a positive number"
    [] f = "nightPayHours" -> "Night pay hours must be a positive number"
    [] f = "hoursInWidebody" -> "Hours in widebody must be a positive number"

\* The field's raw value is there to be validated.
Present(f) == ~(f \in {"aircraft", "hoursInWidebody"} /\ values[f].t = "undefined")

FailsToCoerce(f) == Number(values[f]).nan

IsNegative(f) == ~Number(values[f]).nan /\ Number(values[f]).n < 0

\* The field's raw value is invalid taken by itself.
FieldInvalid(f) ==
  IF f \in NumericFields THEN Present(f) /\ (FailsToCoerce(f) \/ IsNegative(f))
  ELSE IF f \in {"internationalTrip", "isMexicoCaribbean"} THEN values[f].t # "boolean"
  ELSE IF f = "position" THEN values[f] \notin {RawStr(p) : p \in positionOptions}
  ELSE Present(f) /\ values[f].t # "string"

FieldMessages(f) == {e.message : e \in fieldError(f, errors)}

ErrorFields == {e.path : e \in errors}

\* C1: for every validated input the returned totalTripValue is
\* hourlyRate * credit plus the returned perdiemValue, positionCredit,
\* internationalCredit and nightPayCredit, and nothing else.
C1_TotalIsSumOfComponents ==
  results # <<>> =>
    results[1].totalTripValue =
      Times(submitted[1].hourlyRate, submitted[1].credit)
      + results[1].perdiemValue + results[1].positionCredit
      + results[1].internationalCredit + results[1].nightPayCredit

C1_Witness ==
  /\ results # <<>>
  /\ Times(submitted[1].hourlyRate, submitted[1].credit) > 0
  /\ results[1].perdiemValue > 0
  /\ results[1].positionCredit > 0
  /\ results[1].internationalCredit > 0
  /\ results[1].nightPayCredit > 0

\* C2: for every validated input perdiem is 2.70 (international) or 2.20
\* (domestic) plus 0.05 times the floor of seniorityYears / 2, also for a
\* non-integer seniorityYears, and perdiemValue is perdiem * tafb; with
\* seniorityYears 10 and tafb 20 on an international trip they are 2.95 and 59.
C2_PerdiemByFloor ==
  results # <<>> =>
    /\ results[1].perdiem =
         (IF submitted[1].internationalTrip THEN 2700 ELSE 2200)
         + (submitted[1].seniorityYears \div (2 * Scale)) * 50
    /\ results[1].perdiemValue * Scale = results[1].perdiem * submitted[1].tafb
    /\ (/\ submitted[1].internationalTrip
        /\ submitted[1].seniorityYears = 10 * Scale
        /\ submitted[1].tafb = 20 * Scale)
       => results[1].perdiem = 2950 /\ results[1].perdiemValue = 59000

C2_Witness ==
  /\ results # <<>>
  /\ submitted[1].seniorityYears = 3500
  /\ submitted[1].internationalTrip
  /\ submitted[1].tafb = 20 * Scale
  /\ results[1].perdiem = 2750

\* C3: positionCredit by position: Purser by aircraft group and regional
\* flag (x2/x1, x3/x2, x4/x3, and 0 for an absent or other aircraft), Galley
\* hoursInWidebody or 0 when absent, Speaker credit * 2.5.
C3_PositionCreditTable ==
  results # <<>> =>
    LET v == submitted[1]
        a == IF v.aircraft = <<>> THEN "none" ELSE v.aircraft[1]
        regional == v.isMexicoCaribbean
    IN  results[1].positionCredit =
          CASE v.position = "Purser" /\ a \in {"A319", "A320", "B737"} ->
                 (IF regional THEN 2 ELSE 1) * v.credit
            [] v.position = "Purser" /\ a \in {"B737-800", "B737-900", "B757"} ->
                 (IF regional THEN 3 ELSE 2) * v.credit
            [] v.position = "Purser" /\ a = "widebody" ->
                 (IF regional THEN 4 ELSE 3) * v.credit
            [] v.position = "Purser" /\ a \notin aircraftOptions -> 0
            [] v.position = "Galley" /\ v.hoursInWidebody # <<>> -> v.hoursInWidebody[1]
            [] v.position = "Galley" /\ v.hoursInWidebody = <<>> -> 0
            [] v.position = "Speaker" -> (v.credit * 5) \div 2

C3_Witness ==
  /\ results # <<>>
  /\ submitted[1].position = "Purser"
  /\ submitted[1].aircraft = <<"B757">>
  /\ submitted[1].isMexicoCaribbean
  /\ submitted[1].credit = 30 * Scale
  /\ results[1].positionCredit = 90 * Scale

C5_Original ==
  isSubmitted =>
    \A f \in NumericFields :
      Present(f) =>
        FieldMessages(f) =
          IF FailsToCoerce(f) \/ IsNegative(f) THEN {PositiveNumberMessage(f)}
          ELSE {}

\* C5 amended: a negative value is reported with "<label> must be a positive
\* number", a value that fails to coerce is reported with the validator's
\* own invalid-type message, and a value of 0 or greater is not reported.
C5_ErrorPerNumericField ==
  isSubmitted =>
    \A f \in NumericFields :
      Present(f) =>
        FieldMessages(f) =
          IF FailsToCoerce(f) THEN {"Expected number, received nan"}
          ELSE IF IsNegative(f) THEN {PositiveNumberMessage(f)}
          ELSE {}

C5_Witness ==
  /\ isSubmitted
  /\ FailsToCoerce("seniorityYears")
  /\ IsNegative("tafb")
  /\ Number(values.credit) = Num(0)
  /\ FieldMessages("tafb") = {"TAFB must be a positive number"}
  /\ FieldMessages("credit") = {}

\* C6: one validation call reports exactly the fields whose value is invalid
\* by itself, one error each.
C6_ErrorsAccumulate ==
  isSubmitted =>
    /\ ErrorFields = {f \in FieldSet : FieldInvalid(f)}
    /\ Cardinality(errors) = Cardinality(ErrorFields)

C6_Witness ==
  /\ isSubmitted
  /\ values.seniorityYears = RawStr("-1")
  /\ values.tafb = RawStr("-5")
  /\ ErrorFields = {"seniorityYears", "tafb"}

\* C7: an absent aircraft or hoursInWidebody is never reported, whatever the
\* position, and a raw input whose other fields are valid passes validation.
C7_AbsentOptionalsPass ==
  isSubmitted =>
    /\ values.aircraft.t = "undefined" => "aircraft" \notin ErrorFields
    /\ values.hoursInWidebody.t = "undefined" => "hoursInWidebody" \notin ErrorFields
    /\ (/\ values.aircraft.t = "undefined" \/ values.hoursInWidebody.t = "undefined"
        /\ \A f \in FieldSet : ~FieldInvalid(f))
       => errors = {} /\ results # <<>>

C7_Witness ==
  /\ isSubmitted
  /\ values.position = RawStr("Galley")
  /\ values.hoursInWidebody.t = "undefined"
  /\ errors = {}
  /\ results # <<>>
  /\ results[1].positionCredit = 0

\* C8 as stated: a validated record has a position among the three literals
\* and an aircraft that is absent or one of the seven options, and a raw
\* input with any other position or aircraft is rejected.
C8_Original ==
  isSubmitted =>
    /\ errors = {} =>
         /\ submitted[1].position \in positionOptions
         /\ submitted[1].aircraft \in {<<>>} \cup {<<a>> : a \in aircraftOptions}
    /\ (\/ values.position \notin {RawStr(p) : p \in positionOptions}
        \/ (Present("aircraft")
            /\ values.aircraft \notin {RawStr(a) : a \in aircraftOptions}))
       => errors # {}

\* C8 amended: a validated record has a position among the three literals
\* and an aircraft that is absent or the string given, whatever it is; a raw
\* input with any other position is rejected, and no aircraft string is.
C8_CanonicalPosition ==
  isSubmitted =>
    /\ errors = {} =>
         /\ submitted[1].position \in positionOptions
         /\ submitted[1].aircraft =
              IF Present("aircraft") THEN <<values.aircraft.s>> ELSE <<>>
    /\ values.position \notin {RawStr(p) : p \in positionOptions}
       => "position" \in ErrorFields /\ results = <<>>
    /\ values.aircraft.t = "string" => "aircraft" \notin ErrorFields

C8_Witness ==
  /\ isSubmitted
  /\ errors = {}
  /\ submitted[1].position = "Purser"
  /\ submitted[1].aircraft = <<"B747">>
  /\ results # <<>>

\* C9: results is null until a submission passes validation, changes only
\* in a submission that passes validation, and then is calculateTripValue of
\* the values just submitted, whatever was submitted before.
C9_State ==
  /\ ~isSubmitted => results = <<>>
  /\ results = <<>> <=> submitted = <<>>
  /\ results # <<>> => results = <<calculateTripValue(submitted[1])>>

C9_Step ==
  /\ (results' # results \/ submitted' # submitted) =>
       /\ zodResolver(values).success
       /\ values' = values
       /\ submitted' = <<zodResolver(values).values>>
  /\ (edits' = edits /\ zodResolver(values).success) =>
       results' = <<calculateTripValue(zodResolver(values).values)>>

C9_ResultsOnlyFromValidSubmission == [](C9_State) /\ [][C9_Step]_vars

C9_Witness ==
  /\ edits >= 2
  /\ results # <<>>
  /\ results[1].totalTripValue > 0
  /\ errors # {}
  /\ ~zodResolver(values).success

\* C10: while a result is displayed, the International Credit row is shown
\* exactly when that result was computed from an input with
\* internationalTrip = true.
C10_RowFollowsDisplayedResult ==
  resultsShown => (internationalCreditRowShown <=> submitted[1].internationalTrip)

====
